---- MODULE Spec2Model ----
(***************************************************************************)
(* Model of src/main/main.py: the batch pitch shifter.                     *)
(*                                                                         *)
(* main() validates the two directories and calls pitch_shift_file(),      *)
(* which lists the source directory once, runs the per-file pipeline on    *)
(* every entry whose name ends with ".wav" and writes the report at the    *)
(* end.  Only the pitch-shift try block catches exceptions; an exception   *)
(* raised by any other statement propagates out of main() and ends the     *)
(* run (pc = "crashed").                                                   *)
(*                                                                         *)
(* External libraries (sox, crepe, pandas) are modelled by their outcome:  *)
(* a call either returns or raises.  Where the outcome depends on the      *)
(* library version or on the environment (writing or analysing an empty    *)
(* array, an I/O error), both outcomes are possible.                       *)
(*                                                                         *)
(* A frequency is an integer number of Hz.  A semitone difference          *)
(* 12 * log2(num / den) is kept as the pair [num, den]; comparisons with a *)
(* whole number of octaves are exact on the pair.                          *)
(***************************************************************************)
EXTENDS Integers, Sequences, FiniteSets, TLC

VARIABLES
    from_dir,            \* args[1]
    to_dir,              \* args[2]
    existing,            \* the directories for which os.path.isdir is true
    content,             \* names of the entries of from_dir before the run
    pc,                  \* position of the control flow
    listing,             \* the list returned by os.listdir(from_dir)
    idx,                 \* position of the for loop in listing (0: before)
    dataframe,           \* the pandas dataframe: a sequence of rows
    reports,             \* the tables written by write_excel_file, in order
    outputs,             \* the files written by build_file, in order
    trace,               \* the per-file steps executed, in order
    failed,              \* the per-file steps that raised
    o_filename,
    stripped_filename,
    o_speech_array,
    o_analysis,
    new_pitch,
    semitone_difference,
    tfm,                 \* the Transformer of the try block
    ps_speech_array,
    ps_filename,
    ps_analysis

env    == <<from_dir, to_dir, existing, content>>
batch  == <<listing, idx, dataframe, reports, outputs>>
hist   == <<trace, failed>>
locals == <<o_filename, stripped_filename, o_speech_array, o_analysis, new_pitch,
            semitone_difference, tfm, ps_speech_array, ps_filename, ps_analysis>>
vars   == <<env, pc, batch, hist, locals>>

----------------------------------------------------------------------------
(* Bounds of the model *)

\* Largest number of entries in the source directory.
MaxFiles == 2

\* Directory paths given on the command line.
Dirs == {"in", "out"}

\* Entry names a source directory may hold: two recordings, the second
\* named like the output of the first, a text file and a subdirectory.
Names == {"a.wav", "a_ps.wav", "n.txt", "d"}

\* Median fundamental frequencies (Hz) of the recordings.
F0s == {125, 200, 500, 600}

----------------------------------------------------------------------------
(* Program constants *)

\* np.random.randint(250, 300)
RandLow == 250
RandHigh == 300

\* semitone_difference < -12 or semitone_difference > 12
Octave == 12

\* The draws of the random target the model follows: both ends of the range.
Targets == {t \in RandLow .. RandHigh - 1 : t = RandLow \/ t = RandHigh - 1}

----------------------------------------------------------------------------
(* Strings *)

\* str.endswith
EndsWith(s, suffix) ==
    /\ Len(s) >= Len(suffix)
    /\ SubSeq(s, Len(s) - Len(suffix) + 1, Len(s)) = suffix

\* Positions of the dots of a name.
DotsOf(s) == {i \in 1 .. Len(s) : SubSeq(s, i, i) = "."}

Max(S) == CHOOSE x \in S : \A y \in S : y <= x

\* os.path.splitext(p)[0] for a name without directory separators: the name
\* up to its last dot, unless only dots precede that dot.
SplitExtStem(p) ==
    IF DotsOf(p) = {} THEN p
    ELSE LET d == Max(DotsOf(p)) IN
         IF \A i \in 1 .. d - 1 : i \in DotsOf(p) THEN p
         ELSE SubSeq(p, 1, d - 1)

\* Mutant of IsWavName: any name with an extension passes.
HasAnyExtension(name) == DotsOf(name) /= {}

\* if o_filename.endswith(".wav")
IsWavName(name) == EndsWith(name, ".wav")

----------------------------------------------------------------------------
(* Waveforms and analysis *)

\* A waveform: channel count, median fundamental frequency, and whether it
\* holds no samples.
Waveforms == [channels : {1, 2}, f0 : F0s, empty : {FALSE}]

\* np.array([]): what ps_speech_array = [] becomes.
EmptyArray == [channels |-> 1, f0 |-> 0, empty |-> TRUE]

\* A variable not assigned yet.
NoArray == [channels |-> 0, f0 |-> 0, empty |-> TRUE]
NoAnalysis == [med_freq |-> -1]
NoSemitones == [num |-> 0, den |-> 0]

\* get_analysis_dict: the analyses crepe and numpy can return for an array.
\* An array with samples yields its median; an empty one yields a zero
\* median when the call returns.
AnalysisResults(array) ==
    IF array.empty THEN {[med_freq |-> 0]} ELSE {[med_freq |-> array.f0]}

\* Whether get_analysis_dict can raise on the array.
AnalysisCanRaise(array) == array.empty

\* Mutant of Semitones: the quotient taken the wrong way round.
SemitonesInverted(pitch, med) == [num |-> med, den |-> pitch]

\* 12 * np.log2(new_pitch / o_med_frequency), as the pair of the quotient.
Semitones(pitch, med) == [num |-> pitch, den |-> med]

\* d > 12 * k for a semitone difference d and k octaves (k >= 0):
\* 12*log2(num/den) > 12*k  iff  num > 2^k * den; a zero median gives +inf.
SemitonesGreater(d, k) == d.num > (2 ^ k) * d.den

\* d < -12 * k (k >= 0): 12*log2(num/den) < -12*k  iff  2^k * num < den.
SemitonesLess(d, k) == (2 ^ k) * d.num < d.den

\* Mutant of IsExtreme: the octave itself counts as extreme.
IsExtremeInclusive(d) ==
    \/ (2 ^ (Octave \div 12)) * d.num <= d.den
    \/ d.num >= (2 ^ (Octave \div 12)) * d.den

\* is_extreme = semitone_difference < -12 or semitone_difference > 12
IsExtreme(d) == SemitonesLess(d, Octave \div 12) \/ SemitonesGreater(d, Octave \div 12)

\* ps_filename
PsFilename(stem, d) == IF IsExtreme(d) THEN stem \o "_pse.wav" ELSE stem \o "_ps.wav"

\* from_path, to_path
PathOf(dir, name) == dir \o "/" \o name

\* The effects the try block adds to tfm, in call order.
GainEffect == [name |-> "gain", arg |-> NoSemitones]
OopsEffect == [name |-> "oops", arg |-> NoSemitones]
PitchEffect(d) == [name |-> "pitch", arg |-> d]

\* Mutant of EffectsChain: the stereo-to-mono effect added before the first gain.
EffectsChainDownmixFirst(channels, d) ==
    (IF channels >= 2 THEN <<OopsEffect>> ELSE <<>>)
    \o <<GainEffect, PitchEffect(d), GainEffect>>

EffectsChain(channels, d) ==
    <<GainEffect>>
    \o (IF channels >= 2 THEN <<OopsEffect>> ELSE <<>>)
    \o <<PitchEffect(d), GainEffect>>

\* The array tfm.build_array returns: the pitch moved to the target.
ShiftedArray(array, d) ==
    [channels |-> array.channels, f0 |-> IF d.den = 0 THEN 0 ELSE d.num, empty |-> array.empty]

----------------------------------------------------------------------------
(* The file system *)

\* os.path.isdir
IsDir(dir) == dir \in existing

\* The names of the files written into dir by this run.
WrittenNames(dir) == {outputs[i].name : i \in {j \in 1 .. Len(outputs) : outputs[j].dir = dir}}

\* The entries of a directory: those the source directory held before the
\* run and the files written since.
DirEntries(dir) == (IF dir = from_dir THEN content ELSE {}) \cup WrittenNames(dir)

\* os.listdir: the entries in an arbitrary order.
ListDir(dir) ==
    LET S == DirEntries(dir) IN
    {l \in [1 .. Cardinality(S) -> S] : \A i, j \in DOMAIN l : i /= j => l[i] /= l[j]}

\* The writes of this run to a path, as positions in outputs.
WritesTo(path) == {i \in 1 .. Len(outputs) : outputs[i].path = path}

\* The zero-length recording.
ZeroLength == [channels |-> 1, f0 |-> 0, empty |-> TRUE]

\* mem_tfm.build_array(from_path): the arrays the file can hold.  A file this
\* run has written holds what was written last; any other file is a
\* recording of the bounded set or a zero-length one.
LoadResults(path) ==
    IF WritesTo(path) /= {} THEN {outputs[Max(WritesTo(path))].array}
    ELSE Waveforms \cup {ZeroLength}

----------------------------------------------------------------------------
(* main *)

\* Mutant of MainOutcome: the destination directory is not checked.
MainOutcomeSourceOnly(fromOk, toOk) ==
    IF ~fromOk THEN "fatal" ELSE "pitch_shift_file"

\* The two os.path.isdir checks: where main goes.
MainOutcome(fromOk, toOk) ==
    IF ~fromOk THEN "fatal"
    ELSE IF ~toOk THEN "fatal"
    ELSE "pitch_shift_file"

Main ==
    /\ pc = "main"
    /\ pc' = MainOutcome(IsDir(from_dir), IsDir(to_dir))
    /\ UNCHANGED <<env, batch, hist, locals>>

----------------------------------------------------------------------------
(* pitch_shift_file *)

PerFileSteps ==
    <<"load", "analyze", "select", "transform", "name", "write", "reanalyze", "append">>

Step(name) == trace' = Append(trace, [idx |-> idx, step |-> name])

\* An exception outside the try block: it leaves main.
Raise(name) ==
    /\ failed' = failed \cup {[idx |-> idx, step |-> name]}
    /\ pc' = "crashed"

\* dataframe = pd.DataFrame(...); for o_filename in os.listdir(from_dir)
StartBatch ==
    /\ pc = "pitch_shift_file"
    /\ dataframe' = <<>>
    /\ listing' \in ListDir(from_dir)
    /\ idx' = 0
    /\ pc' = "loop"
    /\ UNCHANGED <<env, reports, outputs, hist, locals>>

\* The loop header and the extension test.
LoopNext ==
    /\ pc = "loop"
    /\ IF idx = Len(listing)
       THEN /\ pc' = "persist"
            /\ UNCHANGED <<idx, o_filename, stripped_filename>>
       ELSE /\ idx' = idx + 1
            /\ o_filename' = listing[idx + 1]
            /\ IF IsWavName(listing[idx + 1])
               THEN /\ stripped_filename' = SplitExtStem(listing[idx + 1])
                    /\ pc' = "load"
               ELSE /\ pc' = "loop"
                    /\ UNCHANGED stripped_filename
    /\ UNCHANGED <<env, listing, dataframe, reports, outputs, hist, o_speech_array,
                   o_analysis, new_pitch, semitone_difference, tfm, ps_speech_array,
                   ps_filename, ps_analysis>>

\* o_speech_array = mem_tfm.build_array(from_path)
Load ==
    /\ pc = "load"
    /\ Step("load")
    /\ \/ /\ \E w \in LoadResults(PathOf(from_dir, o_filename)) : o_speech_array' = w
          /\ pc' = "analyze"
          /\ UNCHANGED failed
       \/ /\ Raise("load")
          /\ UNCHANGED o_speech_array
    /\ UNCHANGED <<env, batch, o_filename, stripped_filename, o_analysis, new_pitch,
                   semitone_difference, tfm, ps_speech_array, ps_filename, ps_analysis>>

\* o_analysis = get_analysis_dict(o_speech_array, sample_rate)
AnalyzeSource ==
    /\ pc = "analyze"
    /\ Step("analyze")
    /\ \/ /\ \E a \in AnalysisResults(o_speech_array) : o_analysis' = a
          /\ pc' = "select"
          /\ UNCHANGED failed
       \/ /\ AnalysisCanRaise(o_speech_array)
          /\ Raise("analyze")
          /\ UNCHANGED o_analysis
    /\ UNCHANGED <<env, batch, o_filename, stripped_filename, o_speech_array, new_pitch,
                   semitone_difference, tfm, ps_speech_array, ps_filename, ps_analysis>>

\* new_pitch = np.random.randint(250, 300); semitone_difference = ...
SelectTarget ==
    /\ pc = "select"
    /\ Step("select")
    /\ \E t \in Targets :
          /\ new_pitch' = t
          /\ semitone_difference' = Semitones(t, o_analysis.med_freq)
    /\ pc' = "transform"
    /\ UNCHANGED <<env, batch, failed, o_filename, stripped_filename, o_speech_array,
                   o_analysis, tfm, ps_speech_array, ps_filename, ps_analysis>>

\* ps_speech_array = []; the try block.  The exception of a failed
\* build_array is caught and printed; ps_speech_array stays [].
Transform ==
    /\ pc = "transform"
    /\ Step("transform")
    /\ tfm' = EffectsChain(o_speech_array.channels, semitone_difference)
    /\ \/ /\ ps_speech_array' = ShiftedArray(o_speech_array, semitone_difference)
          /\ UNCHANGED failed
       \/ /\ ps_speech_array' = EmptyArray
          /\ failed' = failed \cup {[idx |-> idx, step |-> "transform"]}
    /\ pc' = "name"
    /\ UNCHANGED <<env, batch, o_filename, stripped_filename, o_speech_array, o_analysis,
                   new_pitch, semitone_difference, ps_filename, ps_analysis>>

\* is_extreme, ps_filename, to_path
DeriveName ==
    /\ pc = "name"
    /\ Step("name")
    /\ ps_filename' = PsFilename(stripped_filename, semitone_difference)
    /\ pc' = "write"
    /\ UNCHANGED <<env, batch, failed, o_filename, stripped_filename, o_speech_array,
                   o_analysis, new_pitch, semitone_difference, tfm, ps_speech_array,
                   ps_analysis>>

\* mem_tfm.build_file(output_filepath=to_path, ...)
WriteOutput ==
    /\ pc = "write"
    /\ Step("write")
    /\ \/ /\ IsDir(to_dir)
          /\ outputs' = Append(outputs, [dir |-> to_dir, name |-> ps_filename,
                                         path |-> PathOf(to_dir, ps_filename),
                                         array |-> ps_speech_array, idx |-> idx])
          /\ pc' = "reanalyze"
          /\ UNCHANGED failed
       \/ /\ Raise("write")
          /\ UNCHANGED outputs
    /\ UNCHANGED <<env, listing, idx, dataframe, reports, locals>>

\* ps_analysis = get_analysis_dict(np.array(ps_speech_array), sample_rate)
AnalyzeShifted ==
    /\ pc = "reanalyze"
    /\ Step("reanalyze")
    /\ \/ /\ \E a \in AnalysisResults(ps_speech_array) : ps_analysis' = a
          /\ pc' = "append"
          /\ UNCHANGED failed
       \/ /\ AnalysisCanRaise(ps_speech_array)
          /\ Raise("reanalyze")
          /\ UNCHANGED ps_analysis
    /\ UNCHANGED <<env, batch, o_filename, stripped_filename, o_speech_array, o_analysis,
                   new_pitch, semitone_difference, tfm, ps_speech_array, ps_filename>>

\* The row append_to_dataframe builds.
Row(filename, psname, semitones, pitch, oa, psa) ==
    [o_file |-> filename, ps_file |-> psname, target_freq |-> pitch,
     o_med_freq |-> oa.med_freq, ps_med_freq |-> psa.med_freq,
     semitone_difference |-> semitones]

\* Mutant of append_to_dataframe: the new row is put first.
prepend_to_dataframe(df, filename, psname, semitones, pitch, oa, psa) ==
    <<Row(filename, psname, semitones, pitch, oa, psa)>> \o df

\* dataframe.append(analysis, ignore_index=True)
append_to_dataframe(df, filename, psname, semitones, pitch, oa, psa) ==
    Append(df, Row(filename, psname, semitones, pitch, oa, psa))

\* Mutant of AppendRow: the report is written after every row.
AppendRowAndSave ==
    /\ pc = "append"
    /\ Step("append")
    /\ dataframe' = append_to_dataframe(dataframe, o_filename, ps_filename,
                                        semitone_difference, new_pitch, o_analysis,
                                        ps_analysis)
    /\ reports' = Append(reports, dataframe')
    /\ pc' = "loop"
    /\ UNCHANGED <<env, listing, idx, outputs, failed, locals>>

AppendRow ==
    /\ pc = "append"
    /\ Step("append")
    /\ dataframe' = append_to_dataframe(dataframe, o_filename, ps_filename,
                                        semitone_difference, new_pitch, o_analysis,
                                        ps_analysis)
    /\ pc' = "loop"
    /\ UNCHANGED <<env, listing, idx, reports, outputs, failed, locals>>

\* write_excel_file(dataframe, excel_name, to_dir), after the loop.
write_excel_file ==
    /\ pc = "persist"
    /\ \/ /\ IsDir(to_dir)
          /\ reports' = Append(reports, dataframe)
          /\ pc' = "done"
       \/ /\ pc' = "crashed"
          /\ UNCHANGED reports
    /\ UNCHANGED <<env, listing, idx, dataframe, outputs, hist, locals>>

----------------------------------------------------------------------------
(* The specification *)

Init ==
    /\ from_dir \in Dirs
    /\ to_dir \in Dirs
    /\ existing \in SUBSET Dirs
    /\ content \in {S \in SUBSET Names : Cardinality(S) <= MaxFiles}
    /\ from_dir \notin existing => content = {}
    /\ pc = "main"
    /\ listing = <<>>
    /\ idx = 0
    /\ dataframe = <<>>
    /\ reports = <<>>
    /\ outputs = <<>>
    /\ trace = <<>>
    /\ failed = {}
    /\ o_filename = ""
    /\ stripped_filename = ""
    /\ o_speech_array = NoArray
    /\ o_analysis = NoAnalysis
    /\ new_pitch = 0
    /\ semitone_difference = NoSemitones
    /\ tfm = <<>>
    /\ ps_speech_array = NoArray
    /\ ps_filename = ""
    /\ ps_analysis = NoAnalysis

Next ==
    \/ Main
    \/ StartBatch
    \/ LoopNext
    \/ Load
    \/ AnalyzeSource
    \/ SelectTarget
    \/ Transform
    \/ DeriveName
    \/ WriteOutput
    \/ AnalyzeShifted
    \/ AppendRow
    \/ write_excel_file

Spec == Init /\ [][Next]_vars

----------------------------------------------------------------------------
(* Vocabulary of the properties *)

\* The name has the recognized waveform extension.
HasWavExtension(name) ==
    Len(name) >= 4 /\ SubSeq(name, Len(name) - 3, Len(name)) = ".wav"

\* The name without its four-character extension.
StemOf(name) == SubSeq(name, 1, Len(name) - 4)

\* The positions of the listing that hold waveform files.
WavPositions == {i \in 1 .. Len(listing) : HasWavExtension(listing[i])}

\* The waveform files of the first k entries of the listing, in order.
WavNamesUpTo(k) == SelectSeq(SubSeq(listing, 1, k), HasWavExtension)

\* The run is over.
Ended == pc \in {"done", "crashed"}

\* File i has been attempted: its load has started.
Attempted(i) == \E k \in 1 .. Len(trace) : trace[k].idx = i /\ trace[k].step = "load"

\* The number of a per-file step in the pipeline.
StepNo(name) == CHOOSE n \in 1 .. Len(PerFileSteps) : PerFileSteps[n] = name

\* The current file is past its transform.
PastTransform == pc \in {"name", "write", "reanalyze", "append"}

\* The current file is past the derivation of its output name.
PastName == pc \in {"write", "reanalyze", "append"}

\* More than an octave, on the target and the measured median.
MoreThanOctave(target, med) == target > 2 * med \/ 2 * target < med

\* s is a prefix of t.
IsPrefix(s, t) == Len(s) <= Len(t) /\ SubSeq(t, 1, Len(s)) = s

----------------------------------------------------------------------------
(* C1 *)

\* C1: batch-level resilience.  When a per-file step of some file has
\* failed and the run is over, every waveform file of the listing has been
\* attempted and the report has been persisted.
C1_BatchResilience ==
    (Ended /\ failed /= {}) =>
        /\ \A i \in WavPositions : Attempted(i)
        /\ Len(reports) = 1

----------------------------------------------------------------------------
(* C2 *)

\* C2: configuration error.  When the source or the destination directory
\* does not exist, the run is before its validation or has aborted as fatal,
\* and no file has been loaded, no output written, no row created and no
\* report persisted; pitch_shift_file is entered only with both directories.
C2_ConfigurationError ==
    /\ (from_dir \notin existing \/ to_dir \notin existing) =>
          /\ pc \in {"main", "fatal"}
          /\ trace = <<>>
          /\ outputs = <<>>
          /\ dataframe = <<>>
          /\ reports = <<>>
    /\ pc = "fatal" => (from_dir \notin existing \/ to_dir \notin existing)

\* The run has aborted on a missing destination directory, the source
\* directory holding files.
C2_Witness ==
    /\ pc = "fatal"
    /\ from_dir \in existing
    /\ to_dir \notin existing
    /\ content /= {}

----------------------------------------------------------------------------
(* C3 *)

\* C3: per-file transform failure.  A file whose transform has failed gets
\* no output file written, and the run does not end while processing it.
C3_TransformFailureSkipsOutput ==
    \A f \in failed :
        f.step = "transform" =>
            /\ \A k \in 1 .. Len(outputs) : outputs[k].idx /= f.idx
            /\ ~(pc = "crashed" /\ idx = f.idx)

----------------------------------------------------------------------------
(* C4 *)

\* The suffix the claim gives a file with this target and median.
C4_Suffix(target, med) ==
    IF MoreThanOctave(target, med) THEN "_pse.wav" ELSE "_ps.wav"

----------------------------------------------------------------------------
(* C5 *)

\* The current file has two or more channels.
C5_Stereo == o_speech_array.channels >= 2

----------------------------------------------------------------------------
(* C6 *)

\* The rows' source files.
C6_RowFiles == [k \in 1 .. Len(dataframe) |-> dataframe[k].o_file]

\* The state part of C6.
C6_TableState ==
    /\ (pc = "loop" /\ idx = 0) => dataframe = <<>>
    /\ IsPrefix(C6_RowFiles, WavNamesUpTo(idx))
    /\ pc = "loop" => C6_RowFiles = WavNamesUpTo(idx)
    /\ Len(reports) <= 1
    /\ pc = "done" <=> Len(reports) = 1
    /\ pc = "done" =>
          /\ reports[1] = dataframe
          /\ idx = Len(listing)
          /\ Len(reports[1]) = Cardinality(WavPositions)

\* C6: report table lifecycle.  The table is empty at batch start, holds one
\* row per processed file in listing order, only grows at its end, and is
\* persisted exactly once, at batch end, with one row per processed file.
C6_ReportLifecycle ==
    /\ []C6_TableState
    /\ [][/\ IsPrefix(dataframe, dataframe')
          /\ Len(dataframe') <= Len(dataframe) + 1
          /\ IsPrefix(reports, reports')]_vars

\* A batch of two waveform files is complete.
C6_Witness ==
    /\ pc = "done"
    /\ Len(reports) = 1
    /\ Len(reports[1]) = 2
    /\ reports[1][1].o_file = listing[1]
    /\ reports[1][2].o_file = listing[2]

----------------------------------------------------------------------------
(* C7 *)

\* C7: extension filter.  Every step executed, every failure, every output
\* file and every report row belongs to a listing entry with the waveform
\* extension.
C7_ExtensionFilter ==
    /\ \A k \in 1 .. Len(trace) : HasWavExtension(listing[trace[k].idx])
    /\ \A f \in failed : HasWavExtension(listing[f.idx])
    /\ \A k \in 1 .. Len(outputs) : HasWavExtension(listing[outputs[k].idx])
    /\ \A k \in 1 .. Len(dataframe) : HasWavExtension(dataframe[k].o_file)
    /\ pc \in {"load", "analyze", "select", "transform", "name", "write", "reanalyze",
               "append"} => HasWavExtension(listing[idx])

\* A batch over a waveform file and another entry is complete: only the
\* waveform file left a row and an output.
C7_Witness ==
    /\ pc = "done"
    /\ \E i \in 1 .. Len(listing) : ~HasWavExtension(listing[i])
    /\ Len(dataframe) = 1
    /\ Len(outputs) = 1

----------------------------------------------------------------------------
(* C8 *)

\* C8: per-file step ordering.  The steps of a file run in pipeline order,
\* a file starts with its load after the previous file's steps, and the
\* semitone delta of the transform, of the filename and of the report row is
\* the one derived from the target and the source median of that file.
C8_StepOrder ==
    /\ Len(trace) > 0 => trace[1].step = "load"
    /\ \A k \in 1 .. Len(trace) - 1 :
          \/ /\ trace[k + 1].idx = trace[k].idx
             /\ StepNo(trace[k + 1].step) = StepNo(trace[k].step) + 1
          \/ /\ trace[k + 1].idx > trace[k].idx
             /\ trace[k + 1].step = "load"
    /\ PastTransform =>
          /\ o_analysis \in AnalysisResults(o_speech_array)
          /\ semitone_difference = [num |-> new_pitch, den |-> o_analysis.med_freq]
          /\ \E k \in 1 .. Len(tfm) : tfm[k] = [name |-> "pitch", arg |-> semitone_difference]
    /\ \A k \in 1 .. Len(dataframe) :
          /\ dataframe[k].semitone_difference =
                [num |-> dataframe[k].target_freq, den |-> dataframe[k].o_med_freq]
          /\ dataframe[k].ps_file =
                StemOf(dataframe[k].o_file)
                    \o (IF \/ dataframe[k].semitone_difference.num
                                > 2 * dataframe[k].semitone_difference.den
                           \/ 2 * dataframe[k].semitone_difference.num
                                < dataframe[k].semitone_difference.den
                        THEN "_pse.wav" ELSE "_ps.wav")

\* Two files went through all their steps, with different medians.
C8_Witness ==
    /\ pc = "done"
    /\ Len(dataframe) = 2
    /\ Len(trace) = 2 * Len(PerFileSteps)
    /\ dataframe[1].o_med_freq /= dataframe[2].o_med_freq

----------------------------------------------------------------------------
(* C9 *)

\* The rows persisted.
C9_PersistedRows == IF reports = <<>> THEN 0 ELSE Len(reports[1])

\* The output files of the destination directory written by the run.
C9_WrittenFiles == {outputs[k].path : k \in 1 .. Len(outputs)}

\* C9: a report exists only once the loop has gone through the whole
\* listing; a run ended by an uncaught error has persisted nothing; the
\* persisted rows never outnumber the written output files.
C9_ReportOnlyAfterLoop ==
    /\ reports /= <<>> => (pc = "done" /\ idx = Len(listing))
    /\ pc = "crashed" => reports = <<>>
    /\ C9_PersistedRows <= Cardinality(C9_WrittenFiles)

\* The second file ended the run: the first file's row and output exist and
\* no report does.
C9_Witness ==
    /\ pc = "crashed"
    /\ idx = 2
    /\ \E f \in failed : f.idx = 2 /\ f.step /= "transform"
    /\ Len(dataframe) = 1
    /\ Len(outputs) >= 1
    /\ reports = <<>>

----------------------------------------------------------------------------
(* C10 *)

\* C10: no output write targets the path of an input file of the listing
\* that was not yet loaded when the write happened.
C10_NoSourceOverwritten ==
    \A k \in 1 .. Len(outputs) :
        \A j \in WavPositions :
            j > outputs[k].idx => outputs[k].path /= PathOf(from_dir, listing[j])

====
